---------------------------- MODULE Spec2Model ----------------------------
(***************************************************************************)
(* Model of the e-voting administration console (app/console2.py), the     *)
(* document-store base model (app/models/base_model.py), the user model    *)
(* (app/models/user.py) and the candidate voting-code generator            *)
(* (app/models/candidate.py, app/utils/engine/CacheEngine.py).             *)
(*                                                                         *)
(* Text is modelled as a sequence of atoms.  An atom is one character      *)
(* ("=", "_", " ") or an opaque run of characters that contains none of    *)
(* these three and no white space.  A token of a command line is a         *)
(* non-empty sequence of atoms without " "; an argument string is the      *)
(* sequence of its white-space separated tokens (str.split()).             *)
(*                                                                         *)
(* A document (a Python dict / a store record) is a function from field    *)
(* names (texts) to values (texts).  The empty function stands for a       *)
(* document that is absent (Python None, which is as falsy as {}).         *)
(*                                                                         *)
(* candidate.py names its base class, the cache object and the random      *)
(* module as Basemodel, cacheEngine and random without defining them; the  *)
(* model reads them as BaseModel, CacheEngine's cache_engine and Python's  *)
(* random module.  Time stamps and the store's own _id field are left out. *)
(***************************************************************************)
EXTENDS Integers, Sequences, FiniteSets, TLC

VARIABLES
    current_user,   \* UserManagementApp.current_user: a document or NoDoc
    is_key_holder,  \* UserManagementApp.is_key_holder
    current_role,   \* UserManagementApp.current_role: a document or NoDoc
    prompt,         \* UserManagementApp.prompt: the name shown, or <<>>
    db,             \* the document store: collection name -> sequence of documents
    nextId,         \* number of ObjectId() values generated so far, plus one
    running,        \* "loop" while commands are dispatched, "crashed" after an
                    \* exception left a handler
    last,           \* the command dispatched last: verb, argument tokens, answer
    out,            \* what the last command printed
    calls,          \* the store calls the last command issued, in order
    pre,            \* the session as it was before the last command
    cache,          \* the external cache: the set of keys with a live entry
    gen,            \* the callers of the voting-code generator
    parse_arg,      \* the tokens handed to _key_value_parser on its own
    parse_result,   \* what that call returned and printed
    sessions,       \* the console processes that share the document store
    stdin           \* the input of the console: piped or typed, and whether
                    \* an exit line has been dispatched

vars == <<current_user, is_key_holder, current_role, prompt, db, nextId,
          running, last, out, calls, pre, cache, gen, parse_arg,
          parse_result, sessions, stdin>>

consoleVars == <<current_user, is_key_holder, current_role, prompt, db,
                 nextId, running, last, out, calls, pre>>
genVars == <<cache, gen>>
parseVars == <<parse_arg, parse_result>>
sessionVars == <<sessions>>
inputVars == <<stdin>>

----------------------------------------------------------------------------
(* Bounds of the model *)

MaxDocs == 2          \* documents created in one run (ObjectId() calls)
MaxRandom == 2        \* outcomes of random.randint that are explored
NumCallers == 2       \* concurrent callers of the voting-code generator
NumSessions == 2      \* console processes run against the same store
MaxTokens == 2        \* tokens of an argument string handed to the parser
MaxCalls == 3         \* calls of the voting-code generator made in a row
MaxChecks == 3        \* cache lookups followed within one generator call

----------------------------------------------------------------------------
(* Text and values *)

K(a) == <<a>>                       \* the text made of one atom

NoDoc == << >>                      \* None where a document is expected
PyNone == <<"<None>">>              \* None where a field value is expected

Truthy(v) == v # << >> /\ v # PyNone   \* `if v:` for a text or None
Some(d) == d # NoDoc                   \* `if d:` for a dict or None

\* dict.get(k): the value, or None
Get(m, k) == IF k \in DOMAIN m THEN m[k] ELSE PyNone

\* a or b for two dict.get results
Or(a, b) == IF Truthy(a) THEN a ELSE b

\* str.replace('_', ' ')
Replace(v) == [i \in 1..Len(v) |-> IF v[i] = "_" THEN " " ELSE v[i]]

\* str.split(sep): the pieces between the occurrences of the character sep
RECURSIVE SplitOn(_, _)
SplitOn(s, sep) ==
    IF \A i \in 1..Len(s) : s[i] # sep
    THEN <<s>>
    ELSE LET i == CHOOSE i \in 1..Len(s) :
                      s[i] = sep /\ \A j \in 1..(i-1) : s[j] # sep
         IN  <<SubSeq(s, 1, i-1)>> \o SplitOn(SubSeq(s, i+1, Len(s)), sep)

\* str.split('=')
Split(s) == SplitOn(s, "=")

\* str.strip(): without the leading and trailing blanks
RECURSIVE Strip(_)
Strip(v) ==
    IF v = << >> THEN v
    ELSE IF Head(v) = " " THEN Strip(Tail(v))
    ELSE IF v[Len(v)] = " " THEN Strip(SubSeq(v, 1, Len(v) - 1))
    ELSE v

\* str.lower(), on the atoms that are not lower case already
Lower(v) ==
    [i \in 1..Len(v) |->
        CASE v[i] = "YES" -> "yes"
          [] v[i] = "Yes" -> "yes"
          [] v[i] = "NO"  -> "no"
          [] OTHER -> v[i]]

\* a list of texts as a field value: the texts, separated by ","
RECURSIVE Join(_)
Join(list) ==
    IF list = << >> THEN << >>
    ELSE IF Len(list) = 1 THEN list[1]
    ELSE list[1] \o <<",">> \o Join(Tail(list))
ListVal(list) == <<"<list>">> \o Join(list)

\* the token name=value
Tok(name, value) == <<name, "=">> \o value

default_key == <<"STRONG", "_", "DEFAULT", "_", "KEY">>

----------------------------------------------------------------------------
(* _key_value_parser *)

\* pair.split('=')[1] exists for every pair
ParseOk(arg) == \A i \in 1..Len(arg) : Len(Split(arg[i])) >= 2

PairName(pair) == Split(pair)[1]
PairValue(pair) ==
    IF PairName(pair) # K("key") THEN Replace(Split(pair)[2]) ELSE Split(pair)[2]

\* dict(...) of the pairs: the last pair of a name wins
PairsDict(arg) ==
    [n \in {PairName(arg[i]) : i \in 1..Len(arg)} |->
        LET i == CHOOSE i \in 1..Len(arg) :
                     /\ PairName(arg[i]) = n
                     /\ \A j \in (i+1)..Len(arg) : PairName(arg[j]) # n
        IN  PairValue(arg[i])]

\* a parser that keeps the well-formed tokens of a malformed argument string
_key_value_parser_partial(arg) ==
    LET WellFormed(pair) == Len(Split(pair)) >= 2
    IN  [map |-> PairsDict(SelectSeq(arg, WellFormed)),
         out |-> IF ParseOk(arg) THEN << >> ELSE <<"Syntax Error">>]

\* The mapping the parser returns and what it prints.  A token without "="
\* raises IndexError, which the second except clause turns into {}.
_key_value_parser(arg) ==
    IF ParseOk(arg)
    THEN [map |-> PairsDict(arg), out |-> << >>]
    ELSE [map |-> NoDoc, out |-> <<"Syntax Error">>]

\* no call of the parser on its own has been made
NotParsed == [done |-> FALSE, map |-> NoDoc, out |-> << >>]

----------------------------------------------------------------------------
(* bson.ObjectId and bcrypt, the collaborators of the models *)

\* ObjectId(): the n-th identifier generated.  Its 24-digit text is the atom
\* ToString(n).
ObjectId(n) == <<"ObjectId", ToString(n)>>

IsObjectId(v) == Len(v) = 2 /\ v[1] = "ObjectId"

\* the texts that are well-formed identifiers: those of the identifiers that
\* can be generated, and one more that no document carries
IsHex(v) == Len(v) = 1 /\ v[1] \in {ToString(n) : n \in 1..(MaxDocs + 2)}

\* ObjectId(v) raises InvalidId unless v is an identifier or a well-formed text
ValidOid(v) == IsObjectId(v) \/ IsHex(v)
ObjectIdOf(v) == IF IsObjectId(v) THEN v ELSE <<"ObjectId">> \o v

\* bcrypt.hashpw(password, gensalt()): a text that no operator-chosen
\* password equals and from which checkpw recognises the password
hashpw(password) == <<"$2b$">> \o password
checkpw(password, hashed) == hashed = hashpw(password)

\* User.default_password, generated once when the class is defined
default_password == K("generated")

----------------------------------------------------------------------------
(* models: the entity classes and BaseModel *)

classes == {K("user"), K("role"), K("event"), K("nomination"), K("vote"),
            K("category"), K("candidate")}

\* BaseModel.collection_name as each class sees it: only User and Role
\* assign collection_name, the other classes assign an attribute named
\* collection and so inherit 'base'
collection_name(entity) ==
    CASE entity = K("user") -> "users"
      [] entity = K("role") -> "roles"
      [] OTHER -> "base"

Collections == {"users", "roles", "base"}

\* the parameters without which a constructor raises TypeError
Required(entity) ==
    CASE entity = K("user")       -> {K("name"), K("email")}
      [] entity = K("role")       -> {K("name"), K("description")}
      [] entity = K("event")      -> {K("name"), K("description"),
                                      K("start_date"), K("end_date")}
      [] entity = K("nomination") -> {K("candidate_id"), K("event_id"),
                                      K("category_id")}
      [] entity = K("vote")       -> {K("candidate_id"), K("event_id"),
                                      K("category_id"), K("voter_ip")}
      [] entity = K("category")   -> {K("name"), K("description"),
                                      K("event_id")}
      [] entity = K("candidate")  -> {K("name"), K("event_id")}

\* constructors that take whatever they are given
ConstructRaises_never(entity, params) == FALSE

ConstructRaises(entity, params) == ~(Required(entity) \subseteq DOMAIN params)

\* the attributes a constructor assigns after BaseModel.__init__ has set the
\* keyword arguments
OwnAttrs(entity, params) ==
    CASE entity = K("user") ->
            (K("password") :>
                IF Truthy(Get(params, K("password")))
                THEN hashpw(params[K("password")])
                ELSE default_password)
      [] entity = K("vote") ->
            (K("number_of_votes") :>
                IF K("number_of_votes") \in DOMAIN params
                THEN params[K("number_of_votes")] ELSE <<"<int>", "1">>)
      [] entity = K("category") ->
            (K("thumbnail_uri") :>
                IF K("thumbnail_uri") \in DOMAIN params
                THEN params[K("thumbnail_uri")] ELSE << >>)
      [] entity = K("candidate") ->
            (K("category_ids") :>
                IF K("category_ids") \in DOMAIN params
                THEN params[K("category_ids")] ELSE << >>)
      [] OTHER -> NoDoc

\* entity_class(**params).__dict__: BaseModel.__init__ sets id to a new
\* ObjectId and then every keyword argument; the subclass then sets its own
\* attributes.  (created_at and updated_at are left out of the model.)
Construct(entity, params, n) ==
    OwnAttrs(entity, params) @@ params @@ (K("id") :> ObjectId(n))

\* User(**user).verify_password(password) for a stored document: the
\* constructor hashes the password field of the document it is given and
\* verify_password checks the password against that hash.  It raises when
\* the document lacks a constructor parameter (TypeError) or has no password
\* (the instance then holds default_password, which is not a bcrypt hash).
verify_raises(user) ==
    ConstructRaises(K("user"), user) \/ ~Truthy(Get(user, K("password")))
User_verify_password(user, password) ==
    checkpw(password, hashpw(user[K("password")]))

\* a filter that no document matches
Matches_none(doc, query) == FALSE

\* a store query matches a document: every queried field has the queried
\* value; a queried None matches a missing field
Matches(doc, query) ==
    \A k \in DOMAIN query :
        IF query[k] = PyNone
        THEN k \notin DOMAIN doc \/ doc[k] = PyNone
        ELSE k \in DOMAIN doc /\ doc[k] = query[k]

Matching(coll, query) == {i \in 1..Len(db[coll]) : Matches(db[coll][i], query)}

First(S) == CHOOSE i \in S : \A j \in S : i <= j

\* a find_one that ignores the filter and returns the first document
find_one_any(coll, query) ==
    IF db[coll] = << >> THEN NoDoc ELSE db[coll][1]

\* collection.find_one(query)
find_one(coll, query) ==
    IF Matching(coll, query) = {} THEN NoDoc
    ELSE db[coll][First(Matching(coll, query))]

Remove(seq, S) ==
    LET keep == {i \in 1..Len(seq) : i \notin S}
        F[i \in 0..Len(seq)] ==
            IF i = 0 THEN << >>
            ELSE IF i \in keep THEN Append(F[i-1], seq[i]) ELSE F[i-1]
    IN  F[Len(seq)]

\* BaseModel.get: an id in the query is converted to an ObjectId first
get_raises(query) == K("id") \in DOMAIN query /\ ~ValidOid(query[K("id")])
get_query(query) ==
    IF K("id") \in DOMAIN query
    THEN [query EXCEPT ![K("id")] = ObjectIdOf(@)]
    ELSE query
BaseModel_get(entity, query) == find_one(collection_name(entity), get_query(query))

\* BaseModel.save: insert_one of the instance's attributes
BaseModel_save(d, entity, doc) ==
    [d EXCEPT ![collection_name(entity)] = Append(@, doc)]

\* BaseModel.update: update_one({'id': self.id}, {'$set': data})
BaseModel_update(d, entity, id, data) ==
    LET coll == collection_name(entity)
        hit == {i \in 1..Len(d[coll]) : Matches(d[coll][i], (K("id") :> id))}
    IN  IF hit = {} THEN d
        ELSE [d EXCEPT ![coll][First(hit)] = data @@ @]

\* BaseModel.delete: delete_one(query)
BaseModel_delete(d, entity, query) ==
    LET coll == collection_name(entity)
        hit == {i \in 1..Len(d[coll]) : Matches(d[coll][i], query)}
    IN  IF hit = {} THEN d
        ELSE [d EXCEPT ![coll] = Remove(@, {First(hit)})]

\* BaseModel.deleteMany: delete_many(query), the query as given
BaseModel_deleteMany(d, entity, query) ==
    LET coll == collection_name(entity)
        hit == {i \in 1..Len(d[coll]) : Matches(d[coll][i], query)}
    IN  [d EXCEPT ![coll] = Remove(@, hit)]

\* a store call, as recorded in calls
Call(op, entity) == [op |-> op, coll |-> collection_name(entity)]

----------------------------------------------------------------------------
(* UserManagementApp: the session and the command handlers *)

superuser == (K("name") :> K("superuser"))

\* the three session states of the login state machine
LoggedOut == ~Some(current_user)
LoggedInKeyHolder == Some(current_user) /\ is_key_holder
LoggedInOrdinary == Some(current_user) /\ ~is_key_holder

Session == [current_user |-> current_user, is_key_holder |-> is_key_holder,
            current_role |-> current_role, prompt |-> prompt]

\* the state a handler leaves behind
Result(cu, kh, cr, pr, d, n, o, c, r) ==
    /\ current_user' = cu
    /\ is_key_holder' = kh
    /\ current_role' = cr
    /\ prompt' = pr
    /\ db' = d
    /\ nextId' = n
    /\ out' = o
    /\ calls' = c
    /\ running' = r

\* a handler that prints o after the store calls c and changes nothing
Report(o, c) ==
    Result(current_user, is_key_holder, current_role, prompt, db, nextId,
           o, c, "loop")

\* a handler left by an exception after the store calls c: the loop ends
Raise(o, c) ==
    Result(current_user, is_key_holder, current_role, prompt, db, nextId,
           o, c, "crashed")

\* _require_login that lets everybody through
_require_login_open == TRUE

_require_login == Some(current_user)

\* the flag as the email branch leaves it, were it not reset
email_login_key_holder_kept == is_key_holder

\* self.is_key_holder = False in the email branch
email_login_key_holder == FALSE

\* the email branch of do_login, credentials parsed and both present
login_email(email, password, o) ==
    LET user == BaseModel_get(K("user"), (K("email") :> email))
        c1   == <<Call("find_one", K("user"))>>
    IN  IF ~Some(user)
        THEN Report(o \o <<"Error: Invalid email or password.", "Usage">>, c1)
        ELSE IF verify_raises(user)
        THEN Report(o \o <<"Error: exception", "Usage">>, c1)
        ELSE IF ~User_verify_password(user, password)
        THEN Report(o \o <<"Error: Invalid email or password.", "Usage">>, c1)
        ELSE \* is_key_holder and current_user are assigned before the role
             \* is looked up; a KeyError or InvalidId in the lookup is caught
             \* by the except clause and leaves them assigned
             IF K("roleId") \notin DOMAIN user
             THEN Result(user, email_login_key_holder, current_role, prompt,
                         db, nextId,
                         o \o <<"Error: exception", "Usage">>, c1, "loop")
             ELSE IF ~ValidOid(user[K("roleId")])
             THEN Result(user, email_login_key_holder, current_role, prompt,
                         db, nextId,
                         o \o <<"Error: exception", "Usage">>, c1, "loop")
             ELSE Result(user, email_login_key_holder,
                         BaseModel_get(K("role"), (K("id") :> user[K("roleId")])),
                         user[K("name")], db, nextId,
                         o \o <<"Logged in as user">>,
                         c1 \o <<Call("find_one", K("role"))>>, "loop")

do_login(arg) ==
    IF arg = << >>
    THEN Report(<<"Error: Missing credentials.", "Usage">>, << >>)
    ELSE
    LET parsed      == _key_value_parser(arg)
        credentials == parsed.map
        email       == Get(credentials, K("email"))
        password    == Get(credentials, K("password"))
    IN  IF K("key") \in DOMAIN credentials
        THEN IF credentials[K("key")] = default_key
             THEN Result(superuser, TRUE, current_role, superuser[K("name")],
                         db, nextId,
                         parsed.out \o <<"Logged in as superuser with full privileges.">>,
                         << >>, "loop")
             ELSE Report(parsed.out \o <<"Error: Invalid key.", "Usage">>, << >>)
        ELSE IF ~Truthy(email) \/ ~Truthy(password)
        THEN Report(parsed.out \o <<"Error: Both email and password are required.", "Usage">>,
                    << >>)
        ELSE login_email(email, password, parsed.out)

\* do_logout that forgets to clear the role
do_logout_keeps_role(arg) ==
    Result(NoDoc, FALSE, current_role, << >>, db, nextId, <<"Logged out.">>,
           << >>, "loop")

do_logout(arg) ==
    Result(NoDoc, FALSE, NoDoc, << >>, db, nextId, <<"Logged out.">>, << >>,
           "loop")

\* entity, *args = arg.split()
Rest(arg) == SubSeq(arg, 2, Len(arg))

do_assign_role(arg) ==
    IF ~_require_login
    THEN Report(<<"Error: Please login first to perform this action.">>, << >>)
    ELSE IF ~is_key_holder
    THEN Report(<<"Error: Only the key-holder can perform this action.">>, << >>)
    ELSE IF arg = << >>
    THEN Report(<<"Error: Missing parameters.", "Usage">>, << >>)
    ELSE
    LET parsed    == _key_value_parser(arg)
        params    == parsed.map
        user_crd  == Or(Get(params, K("user_id")), Get(params, K("user_email")))
        role_name == Or(Get(params, K("role_id")), Get(params, K("role_name")))
        uquery    == IF K("user_id") \in DOMAIN params
                     THEN (K("id") :> user_crd) ELSE (K("email") :> user_crd)
        rquery    == IF K("role_id") \in DOMAIN params
                     THEN (K("id") :> role_name) ELSE (K("name") :> role_name)
        user      == BaseModel_get(K("user"), uquery)
        role      == BaseModel_get(K("role"), rquery)
        c1        == <<Call("find_one", K("user"))>>
        c2        == c1 \o <<Call("find_one", K("role"))>>
    IN  IF ~Truthy(user_crd) \/ ~Truthy(role_name)
        THEN Report(parsed.out \o <<"Error: Both user and role information are required.", "Usage">>,
                    << >>)
        ELSE IF get_raises(uquery)
        THEN Raise(parsed.out \o <<"InvalidId">>, << >>)
        ELSE IF ~Some(user)
        THEN Report(parsed.out \o <<"Error: User not found.", "Usage">>, c1)
        ELSE IF get_raises(rquery)
        THEN Raise(parsed.out \o <<"InvalidId">>, c1)
        ELSE IF ~Some(role)
        THEN Report(parsed.out \o <<"Error: Role not found.", "Usage">>, c2)
        ELSE IF ConstructRaises(K("user"), user) \/ K("id") \notin DOMAIN role
        THEN Report(parsed.out \o <<"Error: exception", "Usage">>, c2)
        ELSE Result(current_user, is_key_holder, current_role, prompt,
                    BaseModel_update(db, K("user"), Get(user, K("id")),
                                     (K("roleId") :> role[K("id")])),
                    nextId,
                    parsed.out \o <<"Role assigned to user.">>,
                    c2 \o <<Call("update_one", K("user"))>>, "loop")

do_create(arg) ==
    IF ~_require_login
    THEN Report(<<"Error: Please login first to perform this action.">>, << >>)
    ELSE IF arg = << >>
    THEN Report(<<"Error: Missing entity and attributes.", "Usage">>, << >>)
    ELSE IF arg[1] \notin classes
    THEN Report(<<"Error: Invalid entity.", "Usage">>, << >>)
    ELSE
    LET entity   == arg[1]
        parsed   == _key_value_parser(Rest(arg))
        params   == parsed.map
        existing == IF entity = K("user")
                    THEN BaseModel_get(entity, (K("email") :> Get(params, K("email"))))
                    ELSE NoDoc
        c1       == IF entity = K("user")
                    THEN <<Call("find_one", entity)>> ELSE << >>
    IN  IF Some(existing)
        THEN Report(parsed.out \o <<"Error: entity already exists.", "Usage">>, c1)
        ELSE IF ConstructRaises(entity, params)
        THEN Report(parsed.out \o <<"Error: exception", "Usage">>, c1)
        ELSE /\ nextId <= MaxDocs
             /\ Result(current_user, is_key_holder, current_role, prompt,
                       BaseModel_save(db, entity, Construct(entity, params, nextId)),
                       nextId + 1,
                       parsed.out \o <<"Entity created:">>,
                       c1 \o <<Call("insert_one", entity)>>, "loop")

\* A pymongo cursor is truthy whatever it holds, so the listing branch is
\* the one taken.
do_list(arg) ==
    IF ~_require_login
    THEN Report(<<"Error: Please login first to perform this action.">>, << >>)
    ELSE IF arg = << >>
    THEN Raise(<<"ValueError">>, << >>)
    ELSE IF arg[1] \notin classes
    THEN Report(<<"Invalid entity">>, << >>)
    ELSE
    LET parsed == IF Len(Rest(arg)) > 0 THEN _key_value_parser(Rest(arg))
                  ELSE [map |-> NoDoc, out |-> << >>]
    IN  Report(parsed.out \o <<"Listing all entities:">>,
               <<Call("find", arg[1])>>)

\* a permission list that keeps the empty and blank entries
Permissions_keep_blank(permissions_str) == SplitOn(permissions_str, ",")

\* [perm.strip() for perm in permissions_str.split(",") if perm.strip()]
Permissions(permissions_str) ==
    LET parts == SplitOn(permissions_str, ",")
        stripped == [i \in 1..Len(parts) |-> Strip(parts[i])]
        NonBlank(x) == x # << >>
    IN  SelectSeq(stripped, NonBlank)

do_update_role_permissions(arg) ==
    IF ~_require_login
    THEN Report(<<"Error: Please login first to perform this action.">>, << >>)
    ELSE IF ~is_key_holder
    THEN Report(<<"Error: Only the key-holder can update role permissions.">>, << >>)
    ELSE IF arg = << >>
    THEN Report(<<"Error: Missing parameters.", "Usage">>, << >>)
    ELSE
    LET parsed          == _key_value_parser(arg)
        params          == parsed.map
        role_identifier == Or(Get(params, K("role_id")), Get(params, K("role_name")))
        permissions_str == Get(params, K("permissions"))
        rquery          == IF Truthy(Get(params, K("role_id")))
                           THEN (K("id") :> role_identifier)
                           ELSE (K("name") :> role_identifier)
        role            == BaseModel_get(K("role"), rquery)
        permissions     == Permissions(permissions_str)
        c1              == <<Call("find_one", K("role"))>>
    IN  IF ~Truthy(role_identifier) \/ ~Truthy(permissions_str)
        THEN Report(parsed.out \o <<"Error: Both role identifier and permissions are required.", "Usage">>,
                    << >>)
        ELSE IF get_raises(rquery)
        THEN Raise(parsed.out \o <<"InvalidId">>, << >>)
        ELSE IF ~Some(role)
        THEN Report(parsed.out \o <<"Error: Role not found.">>, c1)
        ELSE IF permissions = << >>
        THEN Report(parsed.out \o <<"Error: No valid permissions provided.", "Usage">>, c1)
        ELSE IF ConstructRaises(K("role"), role)
        THEN Report(parsed.out \o <<"Error updating role permissions", "Usage">>, c1)
        ELSE Result(current_user, is_key_holder, current_role, prompt,
                    BaseModel_update(db, K("role"), Get(role, K("id")),
                                     (K("permissions") :> ListVal(permissions))),
                    nextId,
                    parsed.out \o <<"Role updated with permissions.">>,
                    c1 \o <<Call("update_one", K("role"))>>, "loop")

\* a confirmation that takes every answer but "no" for a yes
Confirmation_lenient(answer) ==
    IF Lower(Strip(answer)) = K("no") THEN K("no") ELSE K("yes")

\* input(...).strip().lower() of the operator's answer
Confirmation(answer) == Lower(Strip(answer))

\* input() raises EOFError when the input has ended
EOF == <<"<EOF>">>
NoAnswer == <<"<no prompt>">>

\* args.remove('all'): without the first 'all'
RemoveAll(args) ==
    Remove(args, {First({i \in 1..Len(args) : args[i] = K("all")})})

\* the delete command reaches a confirmation prompt
delete_prompts(arg) ==
    /\ _require_login /\ is_key_holder
    /\ arg # << >>
    /\ arg[1] \in classes
    /\ \/ K("all") \in {Rest(arg)[i] : i \in 1..Len(Rest(arg))}
       \/ LET entity_query == _key_value_parser(Rest(arg)).map
          IN  /\ Some(entity_query)
              /\ ~get_raises(entity_query)
              /\ Some(BaseModel_get(arg[1], entity_query))

do_delete(arg, answer) ==
    IF ~_require_login
    THEN Report(<<"Error: Please login first to perform this action.">>, << >>)
    ELSE IF ~is_key_holder
    THEN Report(<<"Only the key-holder can perform delete operations.">>, << >>)
    ELSE IF arg = << >>
    THEN Report(<<"Please provide the entity to delete.">>, << >>)
    ELSE IF arg[1] \notin classes
    THEN Report(<<"Invalid entity">>, << >>)
    ELSE
    LET entity == arg[1]
        args   == Rest(arg)
    IN  IF K("all") \in {args[i] : i \in 1..Len(args)}
        THEN IF answer = EOF
             THEN Raise(<<"Are you sure?", "EOFError">>, << >>)
             ELSE IF Confirmation(answer) = K("yes")
             THEN LET parsed == _key_value_parser(RemoveAll(args))
                  IN  Result(current_user, is_key_holder, current_role, prompt,
                             BaseModel_deleteMany(db, entity, parsed.map),
                             nextId,
                             <<"Are you sure?">> \o parsed.out
                                 \o <<"All entities have been deleted.">>,
                             <<Call("delete_many", entity)>>, "loop")
             ELSE Report(<<"Are you sure?", "Action canceled.">>, << >>)
        ELSE
        LET parsed          == _key_value_parser(args)
            entity_query    == parsed.map
            entity_instance == BaseModel_get(entity, entity_query)
            c1              == <<Call("find_one", entity)>>
        IN  IF ~Some(entity_query)
            THEN Report(parsed.out \o <<"Please provide a valid query to delete.">>,
                        << >>)
            ELSE IF get_raises(entity_query)
            THEN Raise(<<"InvalidId">>, << >>)
            ELSE IF entity_instance = NoDoc
            THEN Report(<<"entity not found">>, c1)
            ELSE IF answer = EOF
            THEN Raise(<<"Are you sure?", "EOFError">>, c1)
            ELSE IF Confirmation(answer) = K("yes")
            THEN IF ConstructRaises(entity, entity_instance)
                 THEN Raise(<<"Are you sure?", "TypeError">>, c1)
                 ELSE Result(current_user, is_key_holder, current_role, prompt,
                             BaseModel_delete(db, entity, get_query(entity_query)),
                             nextId,
                             <<"Are you sure?", "entity deleted:">>,
                             c1 \o <<Call("delete_one", entity)>>, "loop")
            ELSE Report(<<"Are you sure?", "Action canceled.">>, c1)

----------------------------------------------------------------------------
(* The command lines the operator enters *)

Emails == {K("e1")}
Passwords == {K("p1")}
admin == K("admin")

\* keys offered to login: the secret, another text, and the secret followed
\* by "=" and more text
KeyTexts == {default_key, K("wrong"), default_key \o <<"=", "x">>}

LoginArgs ==
    {<< >>, <<K("key")>>}
    \cup {<<Tok("key", k)>> : k \in KeyTexts}
    \cup {<<Tok("email", e)>> : e \in Emails}
    \cup {<<Tok("email", e), Tok("password", pw)>> :
            e \in Emails \cup {K("e9")},
            pw \in Passwords \cup {hashpw(x) : x \in Passwords}}

CreateArgs ==
    {<< >>, <<K("ballot")>>, <<K("user"), Tok("name", K("n1"))>>,
     <<K("user"), Tok("name", K("n1")), K("email")>>,
     <<K("role"), Tok("name", admin), Tok("description", K("d"))>>}
    \cup {<<K("user"), Tok("name", K("n1")), Tok("email", e), Tok("password", pw)>> :
            e \in Emails, pw \in Passwords}

ListArgs == {<< >>, <<K("ballot")>>, <<K("user"), Tok("name", K("n1"))>>}

Ids == {K(ToString(n)) : n \in 1..MaxDocs}

AssignRoleArgs ==
    {<< >>,
     <<Tok("user_id", K("zz")), Tok("role_name", admin)>>,
     <<Tok("user_email", K("e1")), Tok("role_name", K("nobody"))>>}
    \cup {<<Tok("user_email", e), Tok("role_name", admin)>> : e \in Emails}

UpdateRolePermissionsArgs ==
    {<< >>,
     <<Tok("role_name", admin), Tok("permissions", <<"read", ",", "write">>)>>,
     <<Tok("role_name", admin), Tok("permissions", <<",", "_", ",">>)>>}

DeleteArgs ==
    {<< >>, <<K("ballot")>>,
     <<K("user"), K("all")>>,
     <<K("user"), K("all"), K("email")>>,
     <<K("user"), Tok("email", K("e1"))>>,
     <<K("role"), Tok("id", K("zz"))>>}

Answers == {K("yes"), <<" ", "YES", " ">>, K("no"), K("y"), EOF}

----------------------------------------------------------------------------
(* The dispatch loop: one action per command *)

NoCommand == [verb |-> "", arg |-> << >>, answer |-> NoAnswer]

\* sys.stdin.isatty(): the commands are typed at the prompt (cmdloop), or
\* piped, one command per line
Typed == [piped |-> FALSE, exited |-> FALSE]
Piped == [piped |-> TRUE, exited |-> FALSE]

Dispatched(verb, arg, answer) ==
    /\ running = "loop"
    /\ last' = [verb |-> verb, arg |-> arg, answer |-> answer]
    /\ pre' = Session
    /\ UNCHANGED <<genVars, parseVars, sessionVars, inputVars>>

ConsoleInit ==
    /\ current_user = NoDoc
    /\ is_key_holder = FALSE
    /\ current_role = NoDoc
    /\ prompt = << >>
    /\ db = [c \in Collections |-> << >>]
    /\ nextId = 1
    /\ running = "loop"
    /\ last = NoCommand
    /\ out = << >>
    /\ calls = << >>
    /\ pre = [current_user |-> NoDoc, is_key_holder |-> FALSE,
              current_role |-> NoDoc, prompt |-> << >>]

Login == \E arg \in LoginArgs :
    Dispatched("login", arg, NoAnswer) /\ do_login(arg)

Logout ==
    Dispatched("logout", << >>, NoAnswer) /\ do_logout(<< >>)

AssignRole == \E arg \in AssignRoleArgs :
    Dispatched("assign_role", arg, NoAnswer) /\ do_assign_role(arg)

Create == \E arg \in CreateArgs :
    Dispatched("create", arg, NoAnswer) /\ do_create(arg)

List == \E arg \in ListArgs :
    Dispatched("list", arg, NoAnswer) /\ do_list(arg)

UpdateRolePermissions == \E arg \in UpdateRolePermissionsArgs :
    Dispatched("update_role_permissions", arg, NoAnswer)
    /\ do_update_role_permissions(arg)

\* the answer is read only when the command reaches a prompt
Delete == \E arg \in DeleteArgs :
    \E answer \in (IF delete_prompts(arg) THEN Answers ELSE {NoAnswer}) :
        Dispatched("delete", arg, answer) /\ do_delete(arg, answer)

----------------------------------------------------------------------------
(* Candidate.generate_unique_code and the cache *)

RandMin == 100
RandMax == 999

\* the outcomes of random.randint(100, 999) that are explored
RandomParts == {r \in RandMin..RandMax : r < RandMin + MaxRandom}

\* ord(char) and str.upper() for the characters of the candidate names
Ord(c) ==
    CASE c = "a" -> 97 [] c = "b" -> 98 [] c = "c" -> 99
      [] c = "A" -> 65 [] c = "B" -> 66 [] c = "C" -> 67

Upper(c) ==
    CASE c = "a" -> "A" [] c = "b" -> "B" [] c = "c" -> "C" [] OTHER -> c

\* str(n) for n >= 0, one atom per digit
RECURSIVE Str(_)
Str(n) == IF n < 10 THEN <<ToString(n)>>
          ELSE Str(n \div 10) \o <<ToString(n % 10)>>

\* text[:k]
Prefix(text, k) == SubSeq(text, 1, IF Len(text) < k THEN Len(text) ELSE k)

\* text[::-1]
Reverse(text) == [i \in 1..Len(text) |-> text[Len(text) + 1 - i]]

RECURSIVE Sum(_)
Sum(text) == IF text = << >> THEN 0 ELSE Ord(Head(text)) + Sum(Tail(text))

\* candidate_name[:2].upper()
name_part(candidate_name) ==
    LET two == Prefix(candidate_name, 2)
    IN  [i \in 1..Len(two) |-> Upper(two[i])]
ascii_part(candidate_name) == Prefix(Str(Sum(candidate_name)), 3)

\* f"{name_part}{ascii_part}{random_part}"
unique_code(candidate_name, random) ==
    name_part(candidate_name) \o ascii_part(candidate_name) \o Str(random)

\* a cache lookup that never finds an entry
cache_get_miss(c, key) == FALSE

\* CacheEngine.get: the entry, which is truthy, or None
cache_get(c, key) == key \in c

\* CacheEngine.set: setex writes the entry whether or not one exists
cache_set(c, key) == c \cup {key}

\* the names the callers pass: one that is too short, two with the same
\* prefix and character sum, and one whose reversal has its prefix and sum
CandidateNames ==
    {<<"a">>, <<"a", "B">>, <<"A", "b">>, <<"a", "B", "b", "A">>}

Callers == 1..NumCallers

\* a generator that takes every name
name_too_short_never(candidate_name) == FALSE

\* if len(candidate_name) < 2: raise ValueError(...)
name_too_short(candidate_name) == Len(candidate_name) < 2

Idle == [pc |-> "idle", name |-> << >>, code |-> << >>]

\* a caller enters generate_unique_code: a name shorter than two characters
\* raises ValueError
GenCall(p) ==
    /\ gen[p].pc = "idle"
    /\ \E candidate_name \in CandidateNames :
        gen' = [gen EXCEPT ![p] =
                  IF name_too_short(candidate_name)
                  THEN [pc |-> "raised", name |-> candidate_name, code |-> << >>]
                  ELSE [pc |-> "get", name |-> candidate_name, code |-> << >>]]
    /\ UNCHANGED <<cache, consoleVars, parseVars, sessionVars, inputVars>>

\* the code is derived and looked up in the cache; on a hit the function
\* calls itself with the reversed name
GenGet(p) ==
    /\ gen[p].pc = "get"
    /\ \E random \in RandomParts :
        LET code == unique_code(gen[p].name, random)
        IN  gen' = [gen EXCEPT ![p] =
                      IF cache_get(cache, code)
                      THEN [pc |-> "get", name |-> Reverse(gen[p].name),
                            code |-> << >>]
                      ELSE [pc |-> "set", name |-> gen[p].name, code |-> code]]
    /\ UNCHANGED <<cache, consoleVars, parseVars, sessionVars, inputVars>>

\* the code is written to the cache and returned
GenSet(p) ==
    /\ gen[p].pc = "set"
    /\ cache' = cache_set(cache, gen[p].code)
    /\ gen' = [gen EXCEPT ![p].pc = "returned"]
    /\ UNCHANGED <<consoleVars, parseVars, sessionVars, inputVars>>

\* every code the explored names, their reversals and the explored random
\* outcomes can give
DerivableCodes ==
    LET names == {m \in CandidateNames : Len(m) >= 2}
    IN  {unique_code(n, r) : n \in names \cup {Reverse(m) : m \in names},
                             r \in RandomParts}

\* the cache is shared with other sessions: it may hold any reservations
\* when the callers start
InitGen ==
    /\ ConsoleInit
    /\ cache \in SUBSET DerivableCodes
    /\ gen = [p \in Callers |-> Idle]
    /\ parse_arg = << >>
    /\ parse_result = NotParsed
    /\ sessions = << >>
    /\ stdin = Typed

NextGen ==
    \/ \E p \in Callers : GenCall(p)
    \/ \E p \in Callers : GenGet(p)
    \/ \E p \in Callers : GenSet(p)

SpecGen == InitGen /\ [][NextGen]_vars

\* every caller that can take a step eventually takes one
SpecGenFair ==
    SpecGen /\ \A p \in Callers : WF_vars(GenCall(p) \/ GenGet(p) \/ GenSet(p))

----------------------------------------------------------------------------
(* generate_unique_code called again and again by one caller *)

\* the names passed: one that is too short, two whose codes differ, and one
\* that reads the same in both directions
SeqNames == {<<"a">>, <<"a", "B">>, <<"B", "a">>, <<"a", "b", "b", "a">>}

\* no call made yet.  checked lists the codes looked up in the cache by the
\* call in progress, returned the codes the finished calls returned.
SeqIdle == [pc |-> "idle", name |-> << >>, code |-> << >>, ncalls |-> 0,
            checked |-> << >>, returned |-> << >>]

InitGenSeq ==
    /\ ConsoleInit
    /\ cache = {}
    /\ gen = SeqIdle
    /\ parse_arg = << >>
    /\ parse_result = NotParsed
    /\ sessions = << >>
    /\ stdin = Typed

\* the next call starts once the call before it has returned or raised
SeqCall ==
    /\ gen.pc \in {"idle", "returned", "raised"}
    /\ gen.ncalls < MaxCalls
    /\ \E candidate_name \in SeqNames :
        gen' = [gen EXCEPT
                  !.pc = IF name_too_short(candidate_name) THEN "raised"
                         ELSE "get",
                  !.name = candidate_name,
                  !.code = << >>,
                  !.ncalls = @ + 1,
                  !.checked = << >>]
    /\ UNCHANGED <<cache, consoleVars, parseVars, sessionVars, inputVars>>

\* the code is derived and looked up; on a hit the function calls itself
\* with the reversed name
SeqGet ==
    /\ gen.pc = "get"
    /\ Len(gen.checked) < MaxChecks
    /\ \E random \in RandomParts :
        LET code == unique_code(gen.name, random)
        IN  gen' = IF cache_get(cache, code)
                   THEN [gen EXCEPT !.name = Reverse(@),
                                    !.checked = Append(@, code)]
                   ELSE [gen EXCEPT !.pc = "set", !.code = code,
                                    !.checked = Append(@, code)]
    /\ UNCHANGED <<cache, consoleVars, parseVars, sessionVars, inputVars>>

\* the code is written to the cache and returned
SeqSet ==
    /\ gen.pc = "set"
    /\ cache' = cache_set(cache, gen.code)
    /\ gen' = [gen EXCEPT !.pc = "returned", !.returned = Append(@, gen.code)]
    /\ UNCHANGED <<consoleVars, parseVars, sessionVars, inputVars>>

NextGenSeq ==
    \/ SeqCall
    \/ SeqGet
    \/ SeqSet

SpecGenSeq == InitGenSeq /\ [][NextGenSeq]_vars

Init ==
    /\ ConsoleInit
    /\ cache = {}
    /\ gen = << >>
    /\ parse_arg = << >>
    /\ parse_result = NotParsed
    /\ sessions = << >>
    /\ stdin = Typed

Next ==
    \/ Login
    \/ Logout
    \/ AssignRole
    \/ Create
    \/ List
    \/ UpdateRolePermissions
    \/ Delete

Spec == Init /\ [][Next]_vars

----------------------------------------------------------------------------
(* The console run over the seven entity kinds *)

\* one create line per registered kind, with the parameters its constructor
\* requires
KindCreateArgs ==
    {<<K("user"), Tok("name", K("n1")), Tok("email", K("e1"))>>,
     <<K("role"), Tok("name", admin), Tok("description", K("d"))>>,
     <<K("event"), Tok("name", K("n1")), Tok("description", K("d")),
       Tok("start_date", K("s")), Tok("end_date", K("t"))>>,
     <<K("nomination"), Tok("candidate_id", K("1")), Tok("event_id", K("1")),
       Tok("category_id", K("1"))>>,
     <<K("vote"), Tok("candidate_id", K("1")), Tok("event_id", K("1")),
       Tok("category_id", K("1")), Tok("voter_ip", K("ip"))>>,
     <<K("category"), Tok("name", K("n1")), Tok("description", K("d")),
       Tok("event_id", K("1"))>>,
     <<K("candidate"), Tok("name", K("ab")), Tok("event_id", K("1"))>>}

\* delete <kind> all for every kind, and with a filter for two of them
DeleteAllArgs ==
    {<<kind, K("all")>> : kind \in classes}
    \cup {<<kind, K("all"), Tok("name", K("n1"))>> :
            kind \in {K("event"), K("user")}}

CreateKind == \E arg \in KindCreateArgs :
    Dispatched("create", arg, NoAnswer) /\ do_create(arg)

DeleteAll == \E arg \in DeleteAllArgs :
    \E answer \in (IF delete_prompts(arg) THEN Answers ELSE {NoAnswer}) :
        Dispatched("delete", arg, answer) /\ do_delete(arg, answer)

NextKinds ==
    \/ Login
    \/ CreateKind
    \/ DeleteAll

SpecKinds == Init /\ [][NextKinds]_vars

----------------------------------------------------------------------------
(* The console run with typed and with piped input, up to exit and beyond *)

InitExit ==
    /\ ConsoleInit
    /\ cache = {}
    /\ gen = << >>
    /\ parse_arg = << >>
    /\ parse_result = NotParsed
    /\ sessions = << >>
    /\ stdin \in {Typed, Piped}

\* do_exit returns True: cmdloop stops on it, while the loop over the piped
\* lines drops what onecmd returns and goes on with the next line
Exit ==
    /\ running = "loop"
    /\ last' = [verb |-> "exit", arg |-> << >>, answer |-> NoAnswer]
    /\ pre' = Session
    /\ out' = <<"Exiting User Management CLI.">>
    /\ calls' = << >>
    /\ running' = IF stdin.piped THEN "loop" ELSE "stopped"
    /\ stdin' = [stdin EXCEPT !.exited = TRUE]
    /\ UNCHANGED <<current_user, is_key_holder, current_role, prompt, db,
                   nextId, genVars, parseVars, sessionVars>>

NextExit ==
    \/ Login
    \/ Create
    \/ List
    \/ Exit

SpecExit == InitExit /\ [][NextExit]_vars

----------------------------------------------------------------------------
(* Several console processes creating users in the same store *)

Sessions == 1..NumSessions

SessionEmails == {K("e1"), K("e2")}

\* a process after construction: nobody is logged in
SessionStart == [pc |-> "logged_out", email |-> << >>]

InitSessions ==
    /\ ConsoleInit
    /\ cache = {}
    /\ gen = << >>
    /\ parse_arg = << >>
    /\ parse_result = NotParsed
    /\ sessions = [s \in Sessions |-> SessionStart]
    /\ stdin = Typed

sessionFrame ==
    <<current_user, is_key_holder, current_role, prompt, running, last, out,
      calls, pre, genVars, parseVars, inputVars>>

\* login key=STRONG_DEFAULT_KEY typed in process s
SessionLogin(s) ==
    /\ sessions[s].pc = "logged_out"
    /\ sessions' = [sessions EXCEPT ![s].pc = "prompt"]
    /\ UNCHANGED <<db, nextId, sessionFrame>>

\* create user name=n1 email=E password=p1 in process s, up to the answer
\* of User.get({"email": E}): a record found ends the command
CreateCheck(s) ==
    /\ sessions[s].pc \in {"prompt", "refused", "created"}
    /\ \E e \in SessionEmails :
        LET existing == BaseModel_get(K("user"), (K("email") :> e))
        IN  sessions' = [sessions EXCEPT ![s] =
                           IF Some(existing)
                           THEN [pc |-> "refused", email |-> e]
                           ELSE [pc |-> "construct", email |-> e]]
    /\ UNCHANGED <<db, nextId, sessionFrame>>

\* the rest of the command: entity_class(**params) and save()
CreateSave(s) ==
    /\ sessions[s].pc = "construct"
    /\ nextId <= MaxDocs
    /\ LET params == (K("name") :> K("n1")) @@ (K("email") :> sessions[s].email)
                      @@ (K("password") :> K("p1"))
       IN  db' = BaseModel_save(db, K("user"),
                                Construct(K("user"), params, nextId))
    /\ nextId' = nextId + 1
    /\ sessions' = [sessions EXCEPT ![s].pc = "created"]
    /\ UNCHANGED sessionFrame

NextSessions ==
    \/ \E s \in Sessions : SessionLogin(s)
    \/ \E s \in Sessions : CreateCheck(s)
    \/ \E s \in Sessions : CreateSave(s)

SpecSessions == InitSessions /\ [][NextSessions]_vars

----------------------------------------------------------------------------
(* The console run over roles and their permission lists *)

\* permission lists as typed: two entries, two entries with an empty and a
\* blank-led one between them, blank and empty entries only, empty entries
\* only
PermissionTexts ==
    {<<"read", ",", "write">>, <<"read", ",", ",", "_", "write">>,
     <<",", "_", ",">>, <<",", ",">>}

RolePermissionsArgs ==
    {<<Tok("role_name", r), Tok("permissions", p)>> :
        r \in {admin, K("nobody")}, p \in PermissionTexts}

UpdatePermissions == \E arg \in RolePermissionsArgs :
    Dispatched("update_role_permissions", arg, NoAnswer)
    /\ do_update_role_permissions(arg)

NextRoles ==
    \/ Login
    \/ Create
    \/ UpdatePermissions

SpecRoles == Init /\ [][NextRoles]_vars

----------------------------------------------------------------------------
(* _key_value_parser called on its own *)

\* the tokens of the argument strings: well-formed ones, one for the name
\* key, one without "=", one whose value has a "=", one with an empty value
\* and one that starts with "="
ParseTokens ==
    {Tok("a", K("1")), Tok("b", K("2")), Tok("a", <<"x", "_", "y">>),
     Tok("key", <<"s", "_", "t">>), K("b"), Tok("a", <<"b", "=", "c">>),
     Tok("b", << >>), <<"=", "v">>}

\* arg.split() of the argument strings of up to MaxTokens tokens
ArgStrings ==
    UNION {[1..n -> ParseTokens] : n \in 0..MaxTokens}

InitParse ==
    /\ ConsoleInit
    /\ cache = {}
    /\ gen = << >>
    /\ parse_arg \in ArgStrings
    /\ parse_result = NotParsed
    /\ sessions = << >>
    /\ stdin = Typed

\* self._key_value_parser(arg): it returns a mapping and never raises
Parse ==
    /\ ~parse_result.done
    /\ LET r == _key_value_parser(parse_arg)
       IN  parse_result' = [done |-> TRUE, map |-> r.map, out |-> r.out]
    /\ UNCHANGED <<parse_arg, consoleVars, genVars, sessionVars, inputVars>>

NextParse == Parse

SpecParse == InitParse /\ [][NextParse]_vars

----------------------------------------------------------------------------
(* Properties *)

LoginRequired == {"create", "list"}
KeyHolderOnly == {"delete", "assign_role", "update_role_permissions"}

LoginFirst == <<"Error: Please login first to perform this action.">>
KeyHolderErrors ==
    {<<"Error: Only the key-holder can perform this action.">>,
     <<"Error: Only the key-holder can update role permissions.">>,
     <<"Only the key-holder can perform delete operations.">>}

DeleteCalls == {"delete_one", "delete_many"}
Ops(c) == {c[i].op : i \in 1..Len(c)}

\* the answers that read "yes" once trimmed and lower-cased
YesAnswers == {K("yes"), <<" ", "YES", " ">>}

\* C2: the delete command issues a delete-one or delete-many store call only
\* when the operator answered its confirmation prompt with yes; every other
\* answer reports "Action canceled." and leaves the store as it was, in the
\* delete-all form and in the delete-one form.
C2_DeleteNeedsYes ==
    [][last'.verb = "delete" =>
        /\ (Ops(calls') \cap DeleteCalls # {}) => last'.answer \in YesAnswers
        /\ (last'.answer \in Answers \ (YesAnswers \cup {EOF}))
              => (/\ out'[Len(out')] = "Action canceled."
                  /\ db' = db
                  /\ Ops(calls') \cap DeleteCalls = {})]_vars

\* a delete of an existing user was declined with "no" and the user is
\* still in the store
C2_Witness ==
    /\ last.verb = "delete"
    /\ last.answer = K("no")
    /\ last.arg = <<K("user"), Tok("email", K("e1"))>>
    /\ out = <<"Are you sure?", "Action canceled.">>
    /\ db["users"] # << >>

\* C3: two concurrent calls of the generator never both return the same code.
C3_NoCodeReturnedTwice ==
    \A p, q \in Callers :
        (p # q /\ gen[p].pc = "returned" /\ gen[q].pc = "returned")
            => gen[p].code # gen[q].code

\* every code a name and its reversal can give is reserved
AllReserved(candidate_name) ==
    \A r \in RandomParts :
        /\ unique_code(candidate_name, r) \in cache
        /\ unique_code(Reverse(candidate_name), r) \in cache

Finished(p) == gen[p].pc \in {"returned", "raised"}

\* C4: a call of the generator terminates, also when every code that can be
\* derived from its name is reserved.
C4_TerminatesWhenAllReserved ==
    \A p \in Callers :
        (gen[p].pc = "get" /\ AllReserved(gen[p].name)) ~> Finished(p)

\* C5: login key=K with K other than the configured secret leaves the
\* session as it was, and with K the secret ends in LoggedInKeyHolder.
C5_KeyLogin ==
    \A k \in KeyTexts :
        (last.verb = "login" /\ last.arg = <<Tok("key", k)>>)
            => IF k = default_key THEN LoggedInKeyHolder ELSE Session = pre

\* P verifies against the stored password hash of a user with email E
Verifies(e, pw) ==
    \E i \in 1..Len(db["users"]) :
        /\ Get(db["users"][i], K("email")) = e
        /\ Get(db["users"][i], K("password")) = hashpw(pw)

\* C6: from a logged-out session, login email=E password=P ends in
\* LoggedInOrdinary if and only if a user with email E exists and P verifies
\* against the password hash stored when the user was created.
C6_EmailLogin ==
    \A e \in Emails, pw \in Passwords \cup {hashpw(x) : x \in Passwords} :
        (/\ last.verb = "login"
         /\ last.arg = <<Tok("email", e), Tok("password", pw)>>
         /\ ~Some(pre.current_user))
            => (LoggedInOrdinary <=> Verifies(e, pw))

\* C7: the resolved role is empty whenever the session is LoggedOut or
\* LoggedInKeyHolder.
C7_RoleOnlyForUsers ==
    (LoggedOut \/ LoggedInKeyHolder) => current_role = NoDoc

\* C8: the elevated privilege flag is set only while the current identity is
\* the key-holder identity named "superuser".
C8_KeyHolderIsSuperuser ==
    is_key_holder => (/\ Some(current_user)
                      /\ Get(current_user, K("name")) = K("superuser")
                      /\ current_user = superuser)

\* an email login that followed a key login took the flag away
C8_Witness ==
    /\ last.verb = "login"
    /\ pre.is_key_holder
    /\ LoggedInOrdinary
    /\ Get(current_user, K("email")) = K("e1")

\* C9: logout is accepted in every session state and ends in LoggedOut with
\* identity, privilege flag and resolved role cleared, without a store call.
C9_Logout ==
    [][/\ running = "loop" => ENABLED Logout
       /\ last'.verb = "logout" =>
            (/\ current_user' = NoDoc
             /\ is_key_holder' = FALSE
             /\ current_role' = NoDoc
             /\ calls' = << >>
             /\ db' = db)]_vars

\* a logout from a key-holder session that still held a resolved role
C9_Witness ==
    /\ last.verb = "logout"
    /\ pre.is_key_holder /\ Some(pre.current_role)
    /\ LoggedOut /\ current_role = NoDoc

LoginErrors ==
    {"Error: Missing credentials.", "Error: Invalid key.",
     "Error: Both email and password are required.",
     "Error: Invalid email or password.", "Error: exception", "Syntax Error"}

\* C10: a login command that reports an error leaves identity, privilege
\* flag and resolved role as they were before the command.
C10_FailedLoginKeepsSession ==
    (last.verb = "login" /\ \E i \in 1..Len(out) : out[i] \in LoginErrors)
        => Session = pre

\* a user record with this email, a role record with this name
UserWith(e) ==
    \E i \in 1..Len(db["users"]) : Get(db["users"][i], K("email")) = e
RoleNamed(r) ==
    \E i \in 1..Len(db["roles"]) : Get(db["roles"][i], K("name")) = r

RoleNames == {admin, K("nobody")}

\* C11: assign_role changes no user record when a lookup fails: when no user
\* has the given email it reports "User not found", when the user exists but
\* no role has the given name it reports "Role not found", and in both cases
\* it issues no update and the store is unchanged; an update is issued only
\* when both the user and the role exist, and the store changes only by that
\* update.
C11_AssignRoleLookups ==
    [][/\ \A e \in Emails, r \in RoleNames :
            (/\ last'.verb = "assign_role"
             /\ last'.arg = <<Tok("user_email", e), Tok("role_name", r)>>
             /\ LoggedInKeyHolder)
            => /\ ~UserWith(e) =>
                    (/\ out' = <<"Error: User not found.", "Usage">>
                     /\ "update_one" \notin Ops(calls') /\ db' = db)
               /\ (UserWith(e) /\ ~RoleNamed(r)) =>
                    (/\ out' = <<"Error: Role not found.", "Usage">>
                     /\ "update_one" \notin Ops(calls') /\ db' = db)
               /\ "update_one" \in Ops(calls') => (UserWith(e) /\ RoleNamed(r))
       /\ (last'.verb = "assign_role" /\ db' # db)
            => "update_one" \in Ops(calls')]_vars

\* the user e1 exists and so does a role, but not the role asked for: the
\* command reported the role and the user record has no role reference
C11_Witness ==
    /\ last.verb = "assign_role"
    /\ last.arg = <<Tok("user_email", K("e1")), Tok("role_name", K("nobody"))>>
    /\ out = <<"Error: Role not found.", "Usage">>
    /\ UserWith(K("e1")) /\ RoleNamed(admin)
    /\ \A i \in 1..Len(db["users"]) : K("roleId") \notin DOMAIN db["users"][i]

CreateUser(e, pw) ==
    <<K("user"), Tok("name", K("n1")), Tok("email", e), Tok("password", pw)>>

HasEq(token) == \E i \in 1..Len(token) : token[i] = "="

\* the command line of a create that must fail: no entity kind or an unknown
\* one, a token without "=", a required constructor parameter that no token
\* names, or the email of an existing user
CreateMustFail(arg) ==
    \/ arg = << >>
    \/ arg[1] \notin classes
    \/ \E i \in 2..Len(arg) : ~HasEq(arg[i])
    \/ \E r \in Required(arg[1]) : \A i \in 2..Len(arg) : PairName(arg[i]) # r
    \/ /\ arg[1] = K("user")
       /\ \E e \in Emails, i \in 2..Len(arg) :
            UserWith(e) /\ arg[i] = Tok("email", e)

CreateErrors ==
    {"Error: Missing entity and attributes.", "Error: Invalid entity.",
     "Error: exception", "Error: entity already exists."}

\* d is the store s with the document doc appended to one collection
Inserted(s, d, doc) ==
    \E c \in Collections :
        /\ d[c] = Append(s[c], doc)
        /\ \A o \in Collections \ {c} : d[o] = s[o]

\* C13: a create command in a logged-in session issues at most one insert;
\* when the entity kind is missing or unknown, a token fails to parse, a
\* required constructor parameter is missing or the user email exists, it
\* reports an error, issues no insert and leaves the store unchanged; when it
\* inserts, the insert is its last store call and the store grows by exactly
\* one document, which has a new id and every required parameter of its kind.
C13_CreateOneInsert ==
    [][(last'.verb = "create" /\ ~LoggedOut) =>
        LET arg == last'.arg
            IsInsert(c) == c.op = "insert_one"
            inserts == Len(SelectSeq(calls', IsInsert))
        IN  /\ inserts <= 1
            /\ CreateMustFail(arg) =>
                 (/\ inserts = 0
                  /\ db' = db
                  /\ \E i \in 1..Len(out') : out'[i] \in CreateErrors)
            /\ inserts = 0 => db' = db
            /\ inserts = 1 =>
                 (/\ IsInsert(calls'[Len(calls')])
                  /\ \E c \in Collections :
                        LET doc == db'[c][Len(db'[c])]
                        IN  /\ db'[c] # << >>
                            /\ Inserted(db, db', doc)
                            /\ Required(arg[1]) \subseteq DOMAIN doc
                            /\ Get(doc, K("id")) = ObjectId(nextId))]_vars

\* a create whose last token has no "=" reported the error and wrote nothing,
\* in a session that had created a record before
C13_Witness ==
    /\ last.verb = "create"
    /\ last.arg = <<K("user"), Tok("name", K("n1")), K("email")>>
    /\ out = <<"Syntax Error", "Error: exception", "Usage">>
    /\ calls = <<Call("find_one", K("user"))>>
    /\ nextId = 2

\* the record has the attributes the constructor of the kind gives it
IsA(doc, entity) ==
    DOMAIN doc = Required(entity) \cup DOMAIN OwnAttrs(entity, NoDoc)
                    \cup {K("id")}

\* the records of a kind in the store d
RecordsOf(d, entity) ==
    {doc \in UNION {{d[c][i] : i \in 1..Len(d[c])} : c \in Collections} :
        IsA(doc, entity)}

\* C14: every candidate record that create persisted carries a voting code
\* (voting_id) that is reserved in the cache.
C14_CandidateCodeReserved ==
    \A doc \in RecordsOf(db, K("candidate")) :
        /\ K("voting_id") \in DOMAIN doc
        /\ cache_get(cache, doc[K("voting_id")])

\* C15: a gated command given missing or malformed arguments returns control
\* to the dispatch loop: whatever its argument text, no handler of a gated
\* command ends the loop with an exception (the end of the input at a
\* confirmation prompt apart, which is not an argument of the command).
C15_HandlersReturnToLoop ==
    (last.verb \in LoginRequired \cup KeyHolderOnly /\ last.answer # EOF)
        => running = "loop"

\* the parser reported a failure while the last command ran
ParseFailed == \E i \in 1..Len(out) : out[i] = "Syntax Error"

\* C16: a create, list, delete, assign_role or update_role_permissions
\* command whose arguments fail to parse is aborted: it issues no store call,
\* the store is as it was and the session is unchanged.  (Each of these
\* handlers parses before its first store call, so a store call of the
\* command is a call after the failure.)
C16_ParseFailureAborts ==
    [][(last'.verb \in LoginRequired \cup KeyHolderOnly /\ ParseFailed')
        => (calls' = << >> /\ db' = db /\ Session' = Session)]_vars

\* C17: a confirmed delete <kind> all [field=value ...] removes exactly the
\* records of that kind that match the filters: no matching record of the
\* kind remains, the other records of the kind stay, and the records of every
\* other kind stay as they were; for each of the seven kinds.
C17_DeleteAllExact ==
    [][\A arg \in DeleteAllArgs :
        (/\ last'.verb = "delete"
         /\ last'.arg = arg
         /\ last'.answer \in YesAnswers)
        => LET kind   == arg[1]
               filter == PairsDict(RemoveAll(Rest(arg)))
           IN  /\ \A doc \in RecordsOf(db', kind) : ~Matches(doc, filter)
               /\ \A doc \in RecordsOf(db, kind) :
                    ~Matches(doc, filter) => doc \in RecordsOf(db', kind)
               /\ \A other \in classes \ {kind} :
                    RecordsOf(db', other) = RecordsOf(db, other)]_vars

\* C18: for every argument string with a token that has no "=", the parser
\* returns the empty mapping, so none of the well-formed tokens before or
\* after the bad one appears in the result, and reports its diagnostic; it
\* returns rather than raises.
C18_ParseFailsWhole ==
    (/\ parse_result.done
     /\ \E i \in 1..Len(parse_arg) : ~HasEq(parse_arg[i]))
        => (/\ parse_result.map = NoDoc
            /\ parse_result.out = <<"Syntax Error">>)

\* "a=1 b" was parsed: the result is empty and the diagnostic was printed
C18_Witness ==
    /\ parse_result.done
    /\ parse_arg = <<Tok("a", K("1")), K("b")>>
    /\ parse_result.map = NoDoc
    /\ parse_result.out = <<"Syntax Error">>

\* the position of the first "=" of a token that has one, the name before it
\* and the text after it
FirstEq(token) ==
    CHOOSE i \in 1..Len(token) :
        token[i] = "=" /\ \A j \in 1..(i-1) : token[j] # "="
NameOf(token) == SubSeq(token, 1, FirstEq(token) - 1)
ValueOf(token) == SubSeq(token, FirstEq(token) + 1, Len(token))

\* every token of the parsed argument string has a "="
AllHaveEq == \A i \in 1..Len(parse_arg) : HasEq(parse_arg[i])

\* the token at position i is the last one of its name
LastOfName(i) ==
    \A j \in (i+1)..Len(parse_arg) : NameOf(parse_arg[j]) # NameOf(parse_arg[i])

\* C19: the parser splits a token only on its first "=": the value parsed
\* for a name is the entire text after the first "=" of the name's token,
\* with its underscores decoded unless the name is key, also when that text
\* has a "=" itself.
C19_SplitOnFirstEq ==
    (parse_result.done /\ AllHaveEq) =>
        \A i \in 1..Len(parse_arg) :
            LastOfName(i) =>
                /\ NameOf(parse_arg[i]) \in DOMAIN parse_result.map
                /\ parse_result.map[NameOf(parse_arg[i])] =
                      IF NameOf(parse_arg[i]) = K("key")
                      THEN ValueOf(parse_arg[i])
                      ELSE Replace(ValueOf(parse_arg[i]))

\* C20: a token that starts with "=" makes the whole parse fail, and the
\* parser never returns a mapping with the empty text as a key.
C20_EmptyNameRejected ==
    parse_result.done =>
        /\ << >> \notin DOMAIN parse_result.map
        /\ (\E i \in 1..Len(parse_arg) : Head(parse_arg[i]) = "=")
              => (/\ parse_result.map = NoDoc
                  /\ parse_result.out # << >>)

\* every token of the parsed argument string is name=value with a name
WellFormedArg ==
    \A i \in 1..Len(parse_arg) :
        HasEq(parse_arg[i]) /\ NameOf(parse_arg[i]) # << >>

\* the entries of a mapping in some order, each written name=value, joined
\* with spaces into one argument string
RECURSIVE Entries(_, _)
Entries(m, names) ==
    IF names = {} THEN << >>
    ELSE LET n == CHOOSE n \in names : TRUE
         IN  <<n \o <<"=">> \o m[n]>> \o Entries(m, names \ {n})
RECURSIVE JoinSpaces(_)
JoinSpaces(list) ==
    IF list = << >> THEN << >>
    ELSE IF Len(list) = 1 THEN list[1]
    ELSE list[1] \o <<" ">> \o JoinSpaces(Tail(list))
Rejoined(m) == JoinSpaces(Entries(m, DOMAIN m))

\* text.split(): the pieces between blanks, without the empty ones
SplitBlanks(text) ==
    LET NonEmpty(piece) == piece # << >>
    IN  SelectSeq(SplitOn(text, " "), NonEmpty)

\* no value of a name other than key has a "_" or a blank
Reversible(m) ==
    \A n \in DOMAIN m \ {K("key")} :
        \A i \in 1..Len(m[n]) : m[n][i] \notin {"_", " "}

\* C21: for every sequence of well-formed name=value tokens the parser
\* returns a mapping with one entry per distinct name, holding the value of
\* the name's last token with "_" replaced by a blank unless the name is key;
\* and when no value of a name other than key has a "_" or a blank,
\* re-joining the mapping with "=" and blanks and parsing it again gives the
\* same mapping.
C21_LastWinsAndRoundTrip ==
    (parse_result.done /\ WellFormedArg) =>
        /\ DOMAIN parse_result.map =
              {NameOf(parse_arg[i]) : i \in 1..Len(parse_arg)}
        /\ \A i \in 1..Len(parse_arg) :
              LastOfName(i) =>
                 Get(parse_result.map, NameOf(parse_arg[i])) =
                    IF NameOf(parse_arg[i]) = K("key")
                    THEN ValueOf(parse_arg[i])
                    ELSE Replace(ValueOf(parse_arg[i]))
        /\ Reversible(parse_result.map) =>
              _key_value_parser(SplitBlanks(Rejoined(parse_result.map))).map
                 = parse_result.map

\* C22: a login email=E password=P with a password that does not verify
\* against a stored hash of E gives the same diagnostic and leaves the session
\* unchanged whether or not a user with email E exists: it prints what the
\* login prints when no such user exists, "Invalid email or password".
C22_FailedLoginHidesExistence ==
    [][\A e \in Emails, pw \in Passwords \cup {hashpw(x) : x \in Passwords} :
        (/\ last'.verb = "login"
         /\ last'.arg = <<Tok("email", e), Tok("password", pw)>>
         /\ ~Verifies(e, pw))
        => (/\ out' = <<"Error: Invalid email or password.", "Usage">>
            /\ Session' = Session)]_vars

\* the entries of a typed permission list that are neither empty nor blank,
\* in order (each entry of PermissionTexts has at most one atom that is not
\* a blank)
NonBlankEntries(p) ==
    LET IsEntry(a) == a \notin {",", " "}
        atoms == SelectSeq(Replace(p), IsEntry)
    IN  [i \in 1..Len(atoms) |-> K(atoms[i])]

\* the permissions field of the role records with this name
PermissionsOf(d, r) ==
    {Get(d["roles"][i], K("permissions")) :
        i \in {j \in 1..Len(d["roles"]) : Get(d["roles"][j], K("name")) = r}}

UpdatePermissionsErrors ==
    {"Error: Both role identifier and permissions are required.",
     "Error: Role not found.", "Error: No valid permissions provided."}

\* C23: update_role_permissions by a key-holder discards the empty and blank
\* entries of the permission list; when nothing is left it reports an error,
\* issues no update and leaves the store unchanged; an update is issued only
\* after the role was found and with a non-empty list, and it stores exactly
\* the non-blank entries.
C23_BlankPermissionsDiscarded ==
    [][\A r \in {admin, K("nobody")}, p \in PermissionTexts :
        (/\ last'.verb = "update_role_permissions"
         /\ last'.arg = <<Tok("role_name", r), Tok("permissions", p)>>
         /\ LoggedInKeyHolder)
        => /\ NonBlankEntries(p) = << >> =>
                (/\ \E i \in 1..Len(out') : out'[i] \in UpdatePermissionsErrors
                 /\ "update_one" \notin Ops(calls')
                 /\ db' = db)
           /\ "update_one" \in Ops(calls') <=>
                (RoleNamed(r) /\ NonBlankEntries(p) # << >>)
           /\ "update_one" \in Ops(calls') =>
                (/\ calls' = <<Call("find_one", K("role")),
                               Call("update_one", K("role"))>>
                 /\ \E i \in 1..Len(db["roles"]) :
                       /\ Get(db["roles"][i], K("name")) = r
                       /\ db' = [db EXCEPT !["roles"][i] =
                                    (K("permissions") :>
                                        ListVal(NonBlankEntries(p))) @@ @])
           /\ "update_one" \notin Ops(calls') => db' = db]_vars

\* the role exists and the list had only empty and blank entries: the
\* command reported it and the role has no permissions
C23_Witness ==
    /\ last.verb = "update_role_permissions"
    /\ last.arg = <<Tok("role_name", admin), Tok("permissions", <<",", "_", ",">>)>>
    /\ out = <<"Error: No valid permissions provided.", "Usage">>
    /\ calls = <<Call("find_one", K("role"))>>
    /\ RoleNamed(admin)
    /\ PermissionsOf(db, admin) = {PyNone}

\* C24: a generator call with a name shorter than two characters raises at
\* once: it looks no code up in the cache and writes no reservation; only
\* calls with a name of two characters or more reach the cache.
C24_ShortNameRejected ==
    [][/\ (gen'.ncalls # gen.ncalls /\ Len(gen'.name) < 2)
            => (/\ gen'.pc = "raised"
                /\ gen'.checked = << >>
                /\ cache' = cache)
       /\ gen'.pc = "raised" => Len(gen'.name) < 2
       /\ (gen'.pc \in {"get", "set", "returned"} \/ gen'.checked # << >>)
            => Len(gen'.name) >= 2]_vars

\* a call with the name "a" raised after an earlier call had reserved a code
C24_Witness ==
    /\ gen.pc = "raised"
    /\ gen.name = <<"a">>
    /\ gen.checked = << >>
    /\ gen.ncalls = 2
    /\ cache # {}

\* C25: however the create user commands of independent sessions interleave,
\* the store never holds two user records with the same email.
C25_NoDuplicateEmail ==
    \A i, j \in 1..Len(db["users"]) :
        Get(db["users"][i], K("email")) = Get(db["users"][j], K("email"))
            => i = j

\* C26: in a sequence of generator calls that do not overlap, against a
\* cache that forgets nothing, a code goes on to be reserved only if the
\* lookup found it absent, the lookups (the collision path among them) write
\* nothing, a returned code is in the cache on return, and no code is
\* returned twice.
C26_SequentialCodesDistinct ==
    [][/\ gen.pc = "get" =>
            (/\ cache' = cache
             /\ gen'.pc = "set" =>
                  (gen'.code \notin cache /\ gen'.code = gen'.checked[Len(gen'.checked)])
             /\ gen'.pc = "get" => gen'.checked[Len(gen'.checked)] \in cache)
       /\ (gen.pc = "set" /\ gen'.pc = "returned") =>
            (/\ gen'.code = gen.code
             /\ gen'.code \in cache'
             /\ cache \subseteq cache'
             /\ gen'.returned = Append(gen.returned, gen.code))
       /\ \A i, j \in 1..Len(gen'.returned) :
            gen'.returned[i] = gen'.returned[j] => i = j]_vars

\* the second call found its first code reserved by the first call, went on
\* with the reversed name and returned another code
C26_Witness ==
    /\ gen.pc = "returned"
    /\ gen.ncalls = 2
    /\ Len(gen.checked) = 2
    /\ gen.checked[1] = gen.returned[1]
    /\ gen.returned[2] = gen.checked[2]
    /\ cache = {gen.returned[1], gen.returned[2]}

\* C27: within one generator call the codes checked against the cache are
\* all different: a retry never checks a code the call has checked before.
C27_RetryNeverRepeatsCode ==
    \A i, j \in 1..Len(gen.checked) :
        gen.checked[i] = gen.checked[j] => i = j

\* C28: once an exit line has been dispatched the console does nothing
\* more: no later line is dispatched to a handler and no store call is
\* made, with typed input and with piped input.
C28_NothingAfterExit ==
    [][~stdin.exited]_vars

=============================================================================
